---- MODULE Spec2Model ----
(***************************************************************************)
(* Model of the trade-copy engine of SmartMoneyService                     *)
(* (src/src/services/smart-money-service.ts): the smart-money cache, the   *)
(* shared activity subscription with its listener set, and one auto-copy   *)
(* session with its per-trade handler and statistics.                      *)
(*                                                                         *)
(* Numbers are exact fixed-point integers: a price is in hundredths        *)
(* (PriceDen), sizeScale in tenths (ScaleDen), a USDC amount in            *)
(* thousandths (Milli = PriceDen * ScaleDen), so size * sizeScale * price  *)
(* needs no rounding.                                                      *)
(***************************************************************************)
EXTENDS Integers, Sequences, FiniteSets, TLC

\* ------------------------------------------------------------------ bounds
MaxEvents == 2
MaxTime == 4
MaxFetches == 2
MaxHandles == 2
MaxStops == 2

\* ------------------------------------------------------- program constants
MIN_ORDER_SIZE == 1
DefaultMinPnl == 1000
DefaultLimit == 100
\* cacheTtl in ticks of the model clock (the default is 300000 ms)
CacheTtl == 2
\* Date.now() at construction; cacheTimestamp starts at 0, far in the past
StartTime == 2

PriceDen == 100
ScaleDen == 10
Milli == PriceDen * ScaleDen

\* ---------------------------------------------------------------- strings
NoAddress == ""
RawAddresses == {"0xA", "0xa", "0xb", "0xc"}

\* String.prototype.toLowerCase on the addresses of the model
toLowerCase(a) ==
  CASE a = "0xA" -> "0xa"
    [] a = "0xB" -> "0xb"
    [] a = "0xC" -> "0xc"
    [] OTHER -> a

\* ------------------------------------------------------- sequence helpers
Range(s) == {s[i] : i \in 1..Len(s)}

Min(a, b) == IF a < b THEN a ELSE b

RemoveAt(s, i) == SubSeq(s, 1, i - 1) \o SubSeq(s, i + 1, Len(s))

\* ------------------------------------------------------------ environment
\* What the leaderboard provider can hold: walletService.getLeaderboard(0, limit)
\* answers with the first `limit` entries of one of these boards.
Boards ==
  { << [address |-> "0xA", pnl |-> 2000], [address |-> "0xb", pnl |-> 1500] >>,
    << [address |-> "0xb", pnl |-> 2000], [address |-> "0xc", pnl |-> 500] >>,
    << [address |-> "0xc", pnl |-> 500] >> }

getLeaderboard(board, limit) == SubSeq(board, 1, Min(limit, Len(board)))

\* Listener callbacks passed to subscribeSmartMoneyTrades by other consumers
Fns == {"f", "g"}
\* The async closure startAutoCopyTrading registers (one per session)
CopyFn == "copy"

NoOptions == [filterAddresses |-> <<>>, minSize |-> 0, smartMoneyOnly |-> FALSE]
ListenerOptions ==
  { NoOptions,
    [filterAddresses |-> <<"0xb">>, minSize |-> 0, smartMoneyOnly |-> FALSE],
    [filterAddresses |-> <<>>, minSize |-> 0, smartMoneyOnly |-> TRUE] }

\* ActivityTrade events of the stream (trader address "" = no trader): a base
\* event, each field varied alone, and the pairs that reach further cases
NoToken == ""
BaseEvent == [ address |-> "0xA", size |-> 100, price |-> 50, side |-> "BUY",
               asset |-> "tok" ]
ActivityTrades ==
  { BaseEvent }
  \cup { [BaseEvent EXCEPT !.address = a] : a \in {"0xa", "0xb", "0xc", ""} }
  \cup { [BaseEvent EXCEPT !.size = n] : n \in {5, 10, 2000} }
  \cup { [BaseEvent EXCEPT !.size = n, !.price = 200] : n \in {5, 10, 100} }
  \cup { [BaseEvent EXCEPT !.side = "SELL"], [BaseEvent EXCEPT !.asset = NoToken] }

NoEvent == [ address |-> NoAddress, size |-> 0, price |-> 0, side |-> "BUY",
             asset |-> NoToken ]

NoTrade == [ traderAddress |-> NoAddress, side |-> "BUY", size |-> 0, price |-> 0,
             tokenId |-> NoToken, isSmartMoney |-> FALSE, smartMoneyInfo |-> <<>> ]

VARIABLES
  now,                \* Date.now()
  smartMoneyCache,    \* Map<string, SmartMoneyWallet>, in insertion order
  smartMoneySet,      \* Set<string>
  cacheTimestamp,
  activeSubscription, \* 0 = null, else the id of the open upstream subscription
  upstreamOptions,    \* the `options` the open upstream's onTrade closure captured
  tradeHandlers,      \* Set of callbacks, in insertion order
  upstreamUnsubs,     \* per upstream subscription opened: unsubscribe() calls on it
  fetches,            \* getSmartMoneyList calls awaiting walletService.getLeaderboard
  handles,            \* handles returned to other consumers: the callback each captured
  session,            \* the auto-copy session (startAutoCopyTrading's closure state)
  stats,              \* AutoCopyTradingStats of the session
  tasks,              \* per-trade handler invocations suspended at an await
  emitted,            \* number of stream events emitted so far
  backendCalls,       \* tradingService.createMarketOrder calls so far
  stopCalls,          \* stop() calls on the session's subscription so far
  last,               \* what the last step did (a label for the properties)
  state,              \* momentum bot: the module's `state` object
  loops,              \* momentum bot: mainLoop runs suspended at an await
  loopCalls,          \* momentum bot: mainLoop calls so far
  entryOrders         \* momentum bot: entry orders submitted and not rejected
                      \* since the last position was closed

serviceVars == << smartMoneyCache, smartMoneySet, cacheTimestamp, activeSubscription,
                  upstreamOptions, tradeHandlers, upstreamUnsubs >>
cacheVars == << smartMoneyCache, smartMoneySet, cacheTimestamp >>
subVars == << activeSubscription, upstreamOptions, tradeHandlers, upstreamUnsubs >>
sessionVars == << session, stats, tasks, backendCalls, stopCalls >>
vars == << now, smartMoneyCache, smartMoneySet, cacheTimestamp, activeSubscription,
           upstreamOptions, tradeHandlers, upstreamUnsubs, fetches, handles, session,
           stats, tasks, emitted, backendCalls, stopCalls, last, state, loops,
           loopCalls, entryOrders >>
botVars == << state, loops, loopCalls, entryOrders >>

\* The service's fields as one record, so that one operation can be applied to
\* the result of another inside a single step
Service ==
  [ smartMoneyCache |-> smartMoneyCache, smartMoneySet |-> smartMoneySet,
    cacheTimestamp |-> cacheTimestamp, activeSubscription |-> activeSubscription,
    upstreamOptions |-> upstreamOptions, tradeHandlers |-> tradeHandlers,
    upstreamUnsubs |-> upstreamUnsubs, fetches |-> fetches ]

\* ------------------------------------------------------------ smart-money cache
\* Mutant of isCacheValid: the age of the cache is not looked at
isCacheValidForever(s) == Len(s.smartMoneyCache) > 0

isCacheValid(s) == now - s.cacheTimestamp < CacheTtl /\ Len(s.smartMoneyCache) > 0

\* Map.prototype.set: a present key keeps its position and takes the new value
MapSet(map, wallet) ==
  IF \E i \in 1..Len(map) : map[i].address = wallet.address
  THEN [ i \in 1..Len(map) |->
           IF map[i].address = wallet.address THEN wallet ELSE map[i] ]
  ELSE Append(map, wallet)

MapHas(map, key) == \E i \in 1..Len(map) : map[i].address = key

\* Map.prototype.get, <<>> for undefined
MapGet(map, key) ==
  IF MapHas(map, key)
  THEN << map[CHOOSE i \in 1..Len(map) : map[i].address = key] >>
  ELSE <<>>

\* The wallet built from a leaderboard entry (name, volume, score and rank carry
\* no decision of the engine and are left out)
Wallet(trader) == [address |-> toLowerCase(trader.address), pnl |-> trader.pnl]

\* The loop of getSmartMoneyList over the provider's entries, from entry i on:
\* c = [list, cache, set] so far
RECURSIVE RefreshLoop(_, _, _)
RefreshLoop(entries, i, c) ==
  IF i > Len(entries) THEN c
  ELSE IF entries[i].pnl < DefaultMinPnl THEN RefreshLoop(entries, i + 1, c)
  ELSE RefreshLoop(entries, i + 1,
         [ list |-> Append(c.list, Wallet(entries[i])),
           cache |-> MapSet(c.cache, Wallet(entries[i])),
           set |-> c.set \cup {Wallet(entries[i]).address} ])

\* getSmartMoneyList after the provider answered with `entries`:
\* [list |-> the wallets returned, service |-> the service afterwards]
Refresh(s, entries) ==
  LET c == RefreshLoop(entries, 1, [ list |-> <<>>, cache |-> s.smartMoneyCache,
                                     set |-> s.smartMoneySet ])
  IN [ list |-> c.list,
       service |-> [s EXCEPT !.smartMoneyCache = c.cache, !.smartMoneySet = c.set,
                             !.cacheTimestamp = now] ]

\* Mutant of RefreshFailed: a failed refresh drops what was cached
RefreshFailedClears(s) ==
  [s EXCEPT !.smartMoneyCache = <<>>, !.smartMoneySet = {}, !.cacheTimestamp = 0]

\* getSmartMoneyList when walletService.getLeaderboard rejects: the await raises
\* and none of the lines after it runs
RefreshFailed(s) == s

\* ------------------------------------------------------ step label (ghost)
NoOrder == [ tokenId |-> NoToken, side |-> "BUY", amount |-> 0, price |-> 0,
             orderType |-> "FOK", dryRun |-> FALSE ]

Idle ==
  [ op |-> "init", trade |-> NoTrade, delivered |-> FALSE, registered |-> <<>>,
    recipients |-> <<>>, threw |-> {}, order |-> NoOrder, outcome |-> "none",
    onTrade |-> 0, onError |-> 0, raised |-> FALSE, escaped |-> "", event |-> NoEvent,
    caller |-> "", address |-> NoAddress, answer |-> FALSE, refreshed |-> <<>>,
    limit |-> 0 ]

\* ------------------------------------------------- listener set, upstream
\* Set.prototype.add / delete on the insertion-ordered handler set
SetAdd(set, fn) == IF fn \in Range(set) THEN set ELSE Append(set, fn)

SetDelete(set, fn) == SelectSeq(set, LAMBDA h : h # fn)

\* A getSmartMoneyList(limit) call that found the cache invalid and now awaits
\* walletService.getLeaderboard(0, limit)
Fetch(caller, limit, address) == [caller |-> caller, limit |-> limit, address |-> address]

\* subscribeSmartMoneyTrades(onTrade, options); its getSmartMoneyList().catch()
\* is a fetch nobody waits for
subscribeSmartMoneyTrades(s, onTrade, options) ==
  LET added == [s EXCEPT !.tradeHandlers = SetAdd(@, onTrade)]
      warmed == IF isCacheValid(added) THEN added
                ELSE [added EXCEPT !.fetches = Append(@, Fetch("warm", DefaultLimit, NoAddress))]
  IN IF warmed.activeSubscription = 0
     THEN [warmed EXCEPT !.activeSubscription = Len(s.upstreamUnsubs) + 1,
                         !.upstreamUnsubs = Append(@, 0),
                         !.upstreamOptions = options]
     ELSE warmed

\* Mutant of unsubscribe: the upstream subscription is never closed
unsubscribeNeverCloses(s, onTrade) == [s EXCEPT !.tradeHandlers = SetDelete(@, onTrade)]

\* Mutant of unsubscribe: the `tradeHandlers.size === 0` test is missing
unsubscribeAlwaysCloses(s, onTrade) ==
  LET deleted == [s EXCEPT !.tradeHandlers = SetDelete(@, onTrade)]
  IN IF deleted.activeSubscription # 0
     THEN [deleted EXCEPT !.upstreamUnsubs[s.activeSubscription] = @ + 1,
                          !.activeSubscription = 0,
                          !.upstreamOptions = NoOptions]
     ELSE deleted

\* Mutant of unsubscribe: the handler is not taken out of tradeHandlers
unsubscribeKeepsHandler(s, onTrade) ==
  IF Len(s.tradeHandlers) = 0 /\ s.activeSubscription # 0
  THEN [s EXCEPT !.upstreamUnsubs[s.activeSubscription] = @ + 1,
                 !.activeSubscription = 0,
                 !.upstreamOptions = NoOptions]
  ELSE s

\* The unsubscribe closure of the handle that captured onTrade
unsubscribe(s, onTrade) ==
  LET deleted == [s EXCEPT !.tradeHandlers = SetDelete(@, onTrade)]
  IN IF Len(deleted.tradeHandlers) = 0 /\ deleted.activeSubscription # 0
     THEN [deleted EXCEPT !.upstreamUnsubs[s.activeSubscription] = @ + 1,
                          !.activeSubscription = 0,
                          !.upstreamOptions = NoOptions]
     ELSE deleted

\* Mutant of subscriptionOnError: an error of the stream closes the upstream
\* subscription and drops the listeners
subscriptionOnErrorCloses(s) ==
  IF s.activeSubscription # 0
  THEN [s EXCEPT !.upstreamUnsubs[s.activeSubscription] = @ + 1,
                 !.activeSubscription = 0,
                 !.upstreamOptions = NoOptions,
                 !.tradeHandlers = <<>>]
  ELSE s

\* The onError callback handed to subscribeAllActivity: it logs the error
subscriptionOnError(s) == s

\* Mutant of disconnect: smartMoneySet is not cleared
disconnectKeepsSet(s) ==
  LET closed == IF s.activeSubscription # 0
                THEN [s EXCEPT !.upstreamUnsubs[s.activeSubscription] = @ + 1,
                               !.activeSubscription = 0,
                               !.upstreamOptions = NoOptions]
                ELSE s
  IN [closed EXCEPT !.tradeHandlers = <<>>, !.smartMoneyCache = <<>>]

disconnect(s) ==
  LET closed == IF s.activeSubscription # 0
                THEN [s EXCEPT !.upstreamUnsubs[s.activeSubscription] = @ + 1,
                               !.activeSubscription = 0,
                               !.upstreamOptions = NoOptions]
                ELSE s
  IN [closed EXCEPT !.tradeHandlers = <<>>, !.smartMoneyCache = <<>>,
                    !.smartMoneySet = {}]

\* ------------------------------------------------------ handleActivityTrade
\* The filter chain of handleActivityTrade: TRUE when the event is passed on
PassesFilters(trade, options) ==
  /\ trade.address # NoAddress
  /\ \/ Len(options.filterAddresses) = 0
     \/ toLowerCase(trade.address) \in
          { toLowerCase(options.filterAddresses[i]) : i \in 1..Len(options.filterAddresses) }
  /\ ~(options.minSize # 0 /\ trade.size < options.minSize)
  /\ ~(options.smartMoneyOnly /\ toLowerCase(trade.address) \notin smartMoneySet)

\* The SmartMoneyTrade built from an ActivityTrade that passed the filters
SmartMoneyTrade(trade) ==
  [ traderAddress |-> toLowerCase(trade.address), side |-> trade.side,
    size |-> trade.size, price |-> trade.price, tokenId |-> trade.asset,
    isSmartMoney |-> toLowerCase(trade.address) \in smartMoneySet,
    smartMoneyInfo |-> MapGet(smartMoneyCache, toLowerCase(trade.address)) ]

\* Mutant of Dispatch: no try/catch in the loop, the first raise ends it
RECURSIVE DispatchNoCatch(_, _)
DispatchNoCatch(handlers, throwing) ==
  IF handlers = <<>> THEN <<>>
  ELSE IF Head(handlers) \in throwing THEN << Head(handlers) >>
  ELSE << Head(handlers) >> \o DispatchNoCatch(Tail(handlers), throwing)

\* The loop over this.tradeHandlers with its try/catch: the handlers called, in
\* order, when the handlers in `throwing` raise (a raise is caught and logged,
\* and the loop goes on)
RECURSIVE Dispatch(_, _)
Dispatch(handlers, throwing) ==
  IF handlers = <<>> THEN <<>>
  ELSE << Head(handlers) >> \o Dispatch(Tail(handlers), throwing)

\* -------------------------------------------- auto-copy: options and defaults
BaseOptions ==
  [ given |-> {"targetAddresses"}, targetAddresses |-> <<"0xA">>, topN |-> 0,
    sizeScale |-> 1, maxSizePerTrade |-> 50, maxSlippage |-> 3, orderType |-> "FOK",
    delay |-> 0, minTradeSize |-> 10, sideFilter |-> "", dryRun |-> FALSE ]

AutoCopyOptions ==
  { BaseOptions,
    [BaseOptions EXCEPT !.given = {"targetAddresses", "dryRun"}, !.dryRun = TRUE],
    [BaseOptions EXCEPT !.given = {"targetAddresses", "dryRun", "delay"},
                        !.dryRun = TRUE, !.delay = 1],
    [BaseOptions EXCEPT !.given = {"targetAddresses", "delay", "sizeScale", "sideFilter",
                                   "orderType"},
                        !.targetAddresses = <<"0xA", "0xa", "0xb">>, !.delay = 1,
                        !.sizeScale = 10, !.sideFilter = "BUY", !.orderType = "FAK"],
    [BaseOptions EXCEPT !.given = {"topN"}, !.targetAddresses = <<>>, !.topN = 1],
    [BaseOptions EXCEPT !.given = {"targetAddresses", "topN"},
                        !.targetAddresses = <<"0xb">>, !.topN = 2],
    [BaseOptions EXCEPT !.given = {}, !.targetAddresses = <<>>] }

\* options.x ?? default
OrDefault(options, name, default) == IF name \in options.given THEN options[name] ELSE default

\* The resolved configuration of startAutoCopyTrading (sizeScale in tenths,
\* maxSlippage in hundredths)
Config(options) ==
  [ sizeScale |-> OrDefault(options, "sizeScale", 1),
    maxSizePerTrade |-> OrDefault(options, "maxSizePerTrade", 50),
    maxSlippage |-> OrDefault(options, "maxSlippage", 3),
    orderType |-> OrDefault(options, "orderType", "FOK"),
    minTradeSize |-> OrDefault(options, "minTradeSize", 10),
    sideFilter |-> OrDefault(options, "sideFilter", ""),
    delay |-> OrDefault(options, "delay", 0),
    dryRun |-> OrDefault(options, "dryRun", FALSE) ]

NoStats == [ tradesDetected |-> 0, tradesExecuted |-> 0, tradesSkipped |-> 0,
             tradesFailed |-> 0, totalUsdcSpent |-> 0 ]

\* [...new Set(list)]: first occurrences, in order
RECURSIVE Dedupe(_)
Dedupe(list) ==
  IF list = <<>> THEN <<>>
  ELSE LET front == Dedupe(SubSeq(list, 1, Len(list) - 1))
           x == list[Len(list)]
       IN IF x \in Range(front) THEN front ELSE Append(front, x)

\* ------------------------------------------------ auto-copy: per-trade handler
\* The handler's effects are threaded through a context c:
\*   stats, tasks, backendCalls (state)  and, for the step label, what this run
\*   of the handler did: order (the order dispatched), outcome, onTrade and
\*   onError (calls of the callbacks), raised (createMarketOrder raised),
\*   escaped (the origin of the exception that left the handler as a rejected
\*   promise, "" for none)
Context == [ stats |-> stats, tasks |-> tasks, backendCalls |-> backendCalls,
             order |-> NoOrder, outcome |-> "none", onTrade |-> 0, onError |-> 0,
             raised |-> FALSE, escaped |-> "" ]

\* Mutant of Skipped: a skip is counted as a failure as well
SkippedCountsFailure(c) ==
  [c EXCEPT !.stats.tradesSkipped = @ + 1, !.stats.tradesFailed = @ + 1,
            !.outcome = "skipped"]

Skipped(c) == [c EXCEPT !.stats.tradesSkipped = @ + 1, !.outcome = "skipped"]

\* Mutant of CopyValue: the `if (copyValue > maxSizePerTrade)` clamp is missing
CopyValueUnclamped(trade, cfg) == trade.size * cfg.sizeScale * trade.price

\* copyValue, in thousandths of a USDC: size * sizeScale * price, clamped
CopyValue(trade, cfg) ==
  LET copyValue == trade.size * cfg.sizeScale * trade.price
  IN IF copyValue > cfg.maxSizePerTrade * Milli
     THEN cfg.maxSizePerTrade * Milli
     ELSE copyValue

\* Mutant of SlippagePrice: the SELL branch adds the slippage as well
SlippagePriceAlwaysUp(trade, cfg) == trade.price * (PriceDen + cfg.maxSlippage)

\* slippagePrice, in 1/10000
SlippagePrice(trade, cfg) ==
  IF trade.side = "BUY" THEN trade.price * (PriceDen + cfg.maxSlippage)
                        ELSE trade.price * (PriceDen - cfg.maxSlippage)

\* Mutant of Order: the configured orderType is not passed on
OrderAlwaysFOK(trade, usdcAmount, cfg) ==
  [ tokenId |-> trade.tokenId, side |-> trade.side, amount |-> usdcAmount,
    price |-> SlippagePrice(trade, cfg), orderType |-> "FOK",
    dryRun |-> cfg.dryRun ]

Order(trade, usdcAmount, cfg) ==
  [ tokenId |-> trade.tokenId, side |-> trade.side, amount |-> usdcAmount,
    price |-> SlippagePrice(trade, cfg), orderType |-> cfg.orderType,
    dryRun |-> cfg.dryRun ]

\* Mutant of Catch: no try/catch around the submission, the exception leaves
\* the handler and nothing is counted
CatchRethrows(c, error, cbE) == [c EXCEPT !.escaped = error]

\* The catch block, entered with the exception `error` raised inside the try:
\* count a failure and call options.onError (cbE: what that callback does; an
\* exception it raises leaves the handler)
Catch(c, error, cbE) ==
  [c EXCEPT !.stats.tradesFailed = @ + 1, !.onError = @ + 1,
            !.escaped = IF cbE = "throw" THEN "onError" ELSE "",
            !.outcome = "failed"]

\* Mutant of Classify: the notional is added to totalUsdcSpent on a rejection too
ClassifySpendsAlways(c, usdcAmount, success, cbT, cbE) ==
  LET counted ==
        IF success
        THEN [c EXCEPT !.stats.tradesExecuted = @ + 1,
                       !.stats.totalUsdcSpent = @ + usdcAmount,
                       !.outcome = "executed", !.onTrade = @ + 1]
        ELSE [c EXCEPT !.stats.tradesFailed = @ + 1,
                       !.stats.totalUsdcSpent = @ + usdcAmount,
                       !.outcome = "failed", !.onTrade = @ + 1]
  IN IF cbT = "throw" THEN [Catch(counted, "onTrade", cbE) EXCEPT !.outcome = counted.outcome]
     ELSE counted

\* Mutant of Classify: a rejected order is not counted
ClassifyIgnoresRejection(c, usdcAmount, success, cbT, cbE) ==
  LET counted ==
        IF success
        THEN [c EXCEPT !.stats.tradesExecuted = @ + 1,
                       !.stats.totalUsdcSpent = @ + usdcAmount,
                       !.outcome = "executed", !.onTrade = @ + 1]
        ELSE [c EXCEPT !.outcome = "failed", !.onTrade = @ + 1]
  IN IF cbT = "throw" /\ success
     THEN [Catch(counted, "onTrade", cbE) EXCEPT !.outcome = counted.outcome]
     ELSE counted

\* From `if (result.success)` to the end of the try block, with the catch
\* block when options.onTrade raises (cbT, cbE: what the callbacks do)
Classify(c, usdcAmount, success, cbT, cbE) ==
  LET counted ==
        IF success
        THEN [c EXCEPT !.stats.tradesExecuted = @ + 1,
                       !.stats.totalUsdcSpent = @ + usdcAmount,
                       !.outcome = "executed", !.onTrade = @ + 1]
        ELSE [c EXCEPT !.stats.tradesFailed = @ + 1,
                       !.outcome = "failed", !.onTrade = @ + 1]
  IN IF cbT = "throw" THEN [Catch(counted, "onTrade", cbE) EXCEPT !.outcome = counted.outcome]
     ELSE counted

\* Mutant of Execute: the dryRun flag is ignored and the order is submitted
ExecuteAlwaysSubmits(c, trade, usdcAmount, cfg, backend, cbT, cbE) ==
  IF trade.tokenId = NoToken THEN Skipped(c)
  ELSE IF backend = "throw"
  THEN Catch([c EXCEPT !.order = Order(trade, usdcAmount, cfg),
                       !.backendCalls = @ + 1, !.raised = TRUE], "backend", cbE)
  ELSE [c EXCEPT !.order = Order(trade, usdcAmount, cfg),
                 !.backendCalls = @ + 1,
                 !.tasks = Append(@, [pc |-> "order", trade |-> trade,
                                      usdcAmount |-> usdcAmount]),
                 !.outcome = "pending"]

\* Mutant of Execute: a run that wakes up after stop() gives up silently
ExecuteUnlessStopped(c, trade, usdcAmount, cfg, backend, cbT, cbE) ==
  IF stopCalls > 0 THEN c
  ELSE IF trade.tokenId = NoToken THEN Skipped(c)
  ELSE IF cfg.dryRun
  THEN Classify([c EXCEPT !.order = Order(trade, usdcAmount, cfg)],
                usdcAmount, TRUE, cbT, cbE)
  ELSE IF backend = "throw"
  THEN Catch([c EXCEPT !.order = Order(trade, usdcAmount, cfg),
                       !.backendCalls = @ + 1, !.raised = TRUE], "backend", cbE)
  ELSE [c EXCEPT !.order = Order(trade, usdcAmount, cfg),
                 !.backendCalls = @ + 1,
                 !.tasks = Append(@, [pc |-> "order", trade |-> trade,
                                      usdcAmount |-> usdcAmount]),
                 !.outcome = "pending"]

\* After the delay: token check, slippage price, dry run or submission.
\* backend = "throw": createMarketOrder raises before returning a promise.
Execute(c, trade, usdcAmount, cfg, backend, cbT, cbE) ==
  IF trade.tokenId = NoToken THEN Skipped(c)
  ELSE IF cfg.dryRun
  THEN Classify([c EXCEPT !.order = Order(trade, usdcAmount, cfg)],
                usdcAmount, TRUE, cbT, cbE)
  ELSE IF backend = "throw"
  THEN Catch([c EXCEPT !.order = Order(trade, usdcAmount, cfg),
                       !.backendCalls = @ + 1, !.raised = TRUE], "backend", cbE)
  ELSE [c EXCEPT !.order = Order(trade, usdcAmount, cfg),
                 !.backendCalls = @ + 1,
                 !.tasks = Append(@, [pc |-> "order", trade |-> trade,
                                      usdcAmount |-> usdcAmount]),
                 !.outcome = "pending"]

\* Mutant of Handler: a trade that arrives while a run is in flight is dropped
HandlerBusyDrops(c, trade, targetAddresses, cfg, backend, cbT, cbE) ==
  IF Len(c.tasks) > 0 THEN c
  ELSE LET d == [c EXCEPT !.stats.tradesDetected = @ + 1]
       IN IF trade.traderAddress \notin Range(targetAddresses)
          THEN [d EXCEPT !.outcome = "notTarget"]
          ELSE IF trade.size * trade.price < cfg.minTradeSize * PriceDen THEN Skipped(d)
          ELSE IF cfg.sideFilter # "" /\ trade.side # cfg.sideFilter THEN Skipped(d)
          ELSE IF CopyValue(trade, cfg) < MIN_ORDER_SIZE * Milli THEN Skipped(d)
          ELSE IF cfg.delay > 0
          THEN [d EXCEPT !.tasks = Append(@, [pc |-> "delay", trade |-> trade,
                                              usdcAmount |-> CopyValue(trade, cfg)]),
                         !.outcome = "pending"]
          ELSE Execute(d, trade, CopyValue(trade, cfg), cfg, backend, cbT, cbE)

\* Mutant of Handler: the MIN_ORDER_SIZE check is missing
HandlerNoFloor(c, trade, targetAddresses, cfg, backend, cbT, cbE) ==
  LET d == [c EXCEPT !.stats.tradesDetected = @ + 1]
  IN IF trade.traderAddress \notin Range(targetAddresses)
     THEN [d EXCEPT !.outcome = "notTarget"]
     ELSE IF trade.size * trade.price < cfg.minTradeSize * PriceDen THEN Skipped(d)
     ELSE IF cfg.sideFilter # "" /\ trade.side # cfg.sideFilter THEN Skipped(d)
     ELSE IF cfg.delay > 0
     THEN [d EXCEPT !.tasks = Append(@, [pc |-> "delay", trade |-> trade,
                                         usdcAmount |-> CopyValue(trade, cfg)]),
                    !.outcome = "pending"]
     ELSE Execute(d, trade, CopyValue(trade, cfg), cfg, backend, cbT, cbE)

\* Mutant of Handler: the `targetAddresses.includes` check is missing
HandlerNoTargetCheck(c, trade, targetAddresses, cfg, backend, cbT, cbE) ==
  LET d == [c EXCEPT !.stats.tradesDetected = @ + 1]
  IN IF trade.size * trade.price < cfg.minTradeSize * PriceDen THEN Skipped(d)
     ELSE IF cfg.sideFilter # "" /\ trade.side # cfg.sideFilter THEN Skipped(d)
     ELSE IF CopyValue(trade, cfg) < MIN_ORDER_SIZE * Milli THEN Skipped(d)
     ELSE IF cfg.delay > 0
     THEN [d EXCEPT !.tasks = Append(@, [pc |-> "delay", trade |-> trade,
                                         usdcAmount |-> CopyValue(trade, cfg)]),
                    !.outcome = "pending"]
     ELSE Execute(d, trade, CopyValue(trade, cfg), cfg, backend, cbT, cbE)

\* The handler from its first line to its first await (or its end)
Handler(c, trade, targetAddresses, cfg, backend, cbT, cbE) ==
  LET d == [c EXCEPT !.stats.tradesDetected = @ + 1]
  IN IF trade.traderAddress \notin Range(targetAddresses)
     THEN [d EXCEPT !.outcome = "notTarget"]
     ELSE IF trade.size * trade.price < cfg.minTradeSize * PriceDen THEN Skipped(d)
     ELSE IF cfg.sideFilter # "" /\ trade.side # cfg.sideFilter THEN Skipped(d)
     ELSE IF CopyValue(trade, cfg) < MIN_ORDER_SIZE * Milli THEN Skipped(d)
     ELSE IF cfg.delay > 0
     THEN [d EXCEPT !.tasks = Append(@, [pc |-> "delay", trade |-> trade,
                                         usdcAmount |-> CopyValue(trade, cfg)]),
                    !.outcome = "pending"]
     ELSE Execute(d, trade, CopyValue(trade, cfg), cfg, backend, cbT, cbE)

\* ------------------------------------------------------- startAutoCopyTrading
NewSession == [ pc |-> "new", options |-> BaseOptions, targetAddresses |-> <<>>,
                cfg |-> Config(BaseOptions) ]

\* Mutant of StartSession: the `targetAddresses.length === 0` check is missing
StartSessionUnchecked(s, options, targetAddresses) ==
  [ session |-> [ pc |-> "active", options |-> options,
                  targetAddresses |-> targetAddresses, cfg |-> Config(options) ],
    service |-> subscribeSmartMoneyTrades(s, CopyFn,
                  [ filterAddresses |-> targetAddresses,
                    minSize |-> Config(options).minTradeSize,
                    smartMoneyOnly |-> FALSE ]) ]

\* startAutoCopyTrading from `if (targetAddresses.length === 0)` on:
\* [session, service] afterwards
StartSession(s, options, targetAddresses) ==
  IF Len(targetAddresses) = 0
  THEN [ session |-> [NewSession EXCEPT !.pc = "error", !.options = options,
                                        !.cfg = Config(options)],
         service |-> s ]
  ELSE [ session |-> [ pc |-> "active", options |-> options,
                       targetAddresses |-> targetAddresses, cfg |-> Config(options) ],
         service |-> subscribeSmartMoneyTrades(s, CopyFn,
                       [ filterAddresses |-> targetAddresses,
                         minSize |-> Config(options).minTradeSize,
                         smartMoneyOnly |-> FALSE ]) ]

\* options.targetAddresses.map(a => a.toLowerCase())
ExplicitTargets(options) ==
  [ i \in 1..Len(options.targetAddresses) |-> toLowerCase(options.targetAddresses[i]) ]

\* [...new Set([...targetAddresses, ...topAddresses])]
WithTop(targetAddresses, smartMoneyList) ==
  Dedupe(targetAddresses \o [ i \in 1..Len(smartMoneyList) |-> smartMoneyList[i].address ])

\* ------------------------------ momentum bot V2 (src/production-mm-bot.ts)
\* Bound on the mainLoop calls of a behaviour
MaxLoops == 4

\* CONFIG.tradeCooldown (1 hour) and the daily reset period (86400000 ms) in
\* ticks of the model clock, half an hour each; CONFIG.maxDailyLoss and
\* CONFIG.positionSize in cents
TradeCooldown == 2
DayLength == 48
MaxDailyLoss == 300
PositionSize == 100

\* pnlAmount of an exit: the position size times a pnlPct at the take-profit
\* (+8%) or at the stop-loss (-3%) threshold
PnlAmounts == { (PositionSize * 8) \div 100, 0 - (PositionSize * 3) \div 100 }

NoPosition == "null"
OpenPosition == "open"

\* The `state` object when the module is loaded; priceHistory is the number
\* of samples kept for the one market followed (two are enough for
\* detectMomentum, and pruning of old samples is left out)
InitialState ==
  [ currentPosition |-> NoPosition, lastTradeTime |-> 0, dailyPnL |-> 0,
    dailyResetTime |-> StartTime, priceHistory |-> 0 ]

shouldTrade(st) ==
  /\ st.currentPosition = NoPosition
  /\ ~(now - st.lastTradeTime < TradeCooldown)
  /\ ~(st.dailyPnL <= 0 - MaxDailyLoss)

\* detectMomentum after the sample of this run was pushed; moved: the price
\* differs from the oldest sample by momentumThreshold or more
detectMomentum(st, moved) == st.priceHistory >= 2 /\ moved

\* ------------------------------------------------------------------ steps
Commit(s) ==
  /\ smartMoneyCache' = s.smartMoneyCache
  /\ smartMoneySet' = s.smartMoneySet
  /\ cacheTimestamp' = s.cacheTimestamp
  /\ activeSubscription' = s.activeSubscription
  /\ upstreamOptions' = s.upstreamOptions
  /\ tradeHandlers' = s.tradeHandlers
  /\ upstreamUnsubs' = s.upstreamUnsubs
  /\ fetches' = s.fetches

\* The context a run of the handler left behind
CommitContext(c) ==
  /\ stats' = c.stats
  /\ tasks' = c.tasks
  /\ backendCalls' = c.backendCalls

Label(op, c) ==
  [Idle EXCEPT !.op = op, !.order = c.order, !.outcome = c.outcome,
               !.onTrade = c.onTrade, !.onError = c.onError, !.raised = c.raised,
               !.escaped = c.escaped]

Init ==
  /\ now = StartTime
  /\ smartMoneyCache = <<>>
  /\ smartMoneySet = {}
  /\ cacheTimestamp = 0
  /\ activeSubscription = 0
  /\ upstreamOptions = NoOptions
  /\ tradeHandlers = <<>>
  /\ upstreamUnsubs = <<>>
  /\ fetches = <<>>
  /\ handles = <<>>
  /\ session = NewSession
  /\ stats = NoStats
  /\ tasks = <<>>
  /\ emitted = 0
  /\ backendCalls = 0
  /\ stopCalls = 0
  /\ last = Idle
  /\ state = InitialState
  /\ loops = <<>>
  /\ loopCalls = 0
  /\ entryOrders = 0

\* Time passes
Tick ==
  /\ now < MaxTime
  /\ now' = now + 1
  /\ last' = [Idle EXCEPT !.op = "tick"]
  /\ UNCHANGED << botVars, serviceVars, fetches, handles, sessionVars, emitted >>

\* Another consumer calls subscribeSmartMoneyTrades(fn, options)
Subscribe(fn, options) ==
  /\ Len(handles) < MaxHandles
  /\ handles' = Append(handles, fn)
  /\ Commit(subscribeSmartMoneyTrades(Service, fn, options))
  /\ last' = [Idle EXCEPT !.op = "subscribe"]
  /\ UNCHANGED << botVars, now, sessionVars, emitted >>

\* Another consumer calls unsubscribe() on the handle it was given
Unsubscribe(h) ==
  /\ h \in 1..Len(handles)
  /\ Commit(unsubscribe(Service, handles[h]))
  /\ last' = [Idle EXCEPT !.op = "unsubscribe"]
  /\ UNCHANGED << botVars, now, handles, sessionVars, emitted >>

Disconnect ==
  /\ Commit(disconnect(Service))
  /\ last' = [Idle EXCEPT !.op = "disconnect"]
  /\ UNCHANGED << botVars, now, handles, sessionVars, emitted >>

\* startAutoCopyTrading(options) up to its await, or to its end
StartAutoCopy(options) ==
  /\ session.pc = "new"
  /\ IF options.topN > 0
     THEN IF isCacheValid(Service)
          THEN LET r == StartSession(Service, options,
                          WithTop(ExplicitTargets(options), smartMoneyCache))
               IN session' = r.session /\ Commit(r.service)
          ELSE /\ Len(fetches) < MaxFetches
               /\ session' = [NewSession EXCEPT !.pc = "resolving", !.options = options,
                                                !.cfg = Config(options)]
               /\ Commit([Service EXCEPT !.fetches =
                            Append(@, Fetch("start", options.topN, NoAddress))])
     ELSE LET r == StartSession(Service, options, ExplicitTargets(options))
          IN session' = r.session /\ Commit(r.service)
  /\ last' = [Idle EXCEPT !.op = "start", !.limit = options.topN,
                          !.refreshed = IF options.topN > 0 /\ isCacheValid(Service)
                                        THEN smartMoneyCache ELSE <<>>]
  /\ UNCHANGED << botVars, now, handles, stats, tasks, backendCalls, stopCalls, emitted >>

\* stop() on the AutoCopyTradingSubscription
Stop ==
  /\ session.pc = "active"
  /\ stopCalls < MaxStops
  /\ stopCalls' = stopCalls + 1
  /\ Commit(unsubscribe(Service, CopyFn))
  /\ last' = [Idle EXCEPT !.op = "stop"]
  /\ UNCHANGED << botVars, now, handles, session, stats, tasks, backendCalls, emitted >>

\* What the backend and the session's callbacks may do in one run of the
\* handler: createMarketOrder raising at the call, options.onTrade raising,
\* options.onError raising
Behaviours ==
  { [backend |-> "ok", cbT |-> "ok", cbE |-> "ok"],
    [backend |-> "ok", cbT |-> "throw", cbE |-> "ok"],
    [backend |-> "ok", cbT |-> "throw", cbE |-> "throw"],
    [backend |-> "throw", cbT |-> "ok", cbE |-> "ok"],
    [backend |-> "throw", cbT |-> "ok", cbE |-> "throw"] }

\* The stream adapter emits an event to the open upstream subscription:
\* handleActivityTrade(event, options) with the options its closure captured.
\* throwing: the other consumers' callbacks that raise on this trade.
Emit(event, throwing, b) ==
  /\ emitted < MaxEvents
  /\ throwing \subseteq Range(tradeHandlers) \ {CopyFn}
  /\ activeSubscription # 0
  /\ emitted' = emitted + 1
  /\ IF PassesFilters(event, upstreamOptions)
     THEN LET trade == SmartMoneyTrade(event)
              called == Dispatch(tradeHandlers, throwing)
              c == IF CopyFn \in Range(called)
                   THEN Handler(Context, trade, session.targetAddresses, session.cfg,
                                b.backend, b.cbT, b.cbE)
                   ELSE Context
          IN /\ CommitContext(c)
             /\ last' = [Label("emit", c) EXCEPT
                           !.event = event, !.trade = trade, !.delivered = TRUE,
                           !.registered = tradeHandlers, !.recipients = called,
                           !.threw = throwing \cap Range(called)]
     ELSE /\ last' = [Idle EXCEPT !.op = "emit", !.event = event]
          /\ UNCHANGED << stats, tasks, backendCalls >>
  /\ UNCHANGED << botVars, now, serviceVars, fetches, handles, session, stopCalls >>

\* The delay timer of a suspended run fires
Timer(i, b) ==
  /\ i \in 1..Len(tasks)
  /\ tasks[i].pc = "delay"
  /\ LET c == Execute([Context EXCEPT !.tasks = RemoveAt(tasks, i)], tasks[i].trade,
                      tasks[i].usdcAmount, session.cfg, b.backend, b.cbT, b.cbE)
     IN /\ CommitContext(c)
        /\ last' = [Label("timer", c) EXCEPT !.trade = tasks[i].trade]
  /\ UNCHANGED << botVars, now, serviceVars, fetches, handles, session, stopCalls, emitted >>

\* createMarketOrder's promise resolves with result.success = success
OrderReturns(i, success, b) ==
  /\ i \in 1..Len(tasks)
  /\ tasks[i].pc = "order"
  /\ LET c == Classify([Context EXCEPT !.tasks = RemoveAt(tasks, i)],
                       tasks[i].usdcAmount, success, b.cbT, b.cbE)
     IN /\ CommitContext(c)
        /\ last' = [Label("orderReturns", c) EXCEPT !.trade = tasks[i].trade]
  /\ UNCHANGED << botVars, now, serviceVars, fetches, handles, session, stopCalls, emitted >>

\* createMarketOrder's promise rejects
OrderRaises(i, b) ==
  /\ i \in 1..Len(tasks)
  /\ tasks[i].pc = "order"
  /\ LET c == Catch([Context EXCEPT !.tasks = RemoveAt(tasks, i), !.raised = TRUE],
                    "backend", b.cbE)
     IN /\ CommitContext(c)
        /\ last' = [Label("orderRaises", c) EXCEPT !.trade = tasks[i].trade]
  /\ UNCHANGED << botVars, now, serviceVars, fetches, handles, session, stopCalls, emitted >>

\* getSmartMoneyList(limit), isSmartMoney(address) or getSmartMoneyInfo(address)
\* called by a consumer: answered from a valid cache, else a fetch is awaited
Lookup(caller, limit, address) ==
  /\ IF isCacheValid(Service)
     THEN /\ last' = [Idle EXCEPT
                !.op = caller, !.address = address, !.limit = limit,
                !.answer = IF caller = "isSmartMoney"
                           THEN toLowerCase(address) \in smartMoneySet
                           ELSE MapHas(smartMoneyCache, toLowerCase(address)),
                !.refreshed = IF caller = "getSmartMoneyList" THEN smartMoneyCache
                              ELSE <<>>]
          /\ UNCHANGED fetches
     ELSE /\ Len(fetches) < MaxFetches
          /\ fetches' = Append(fetches, Fetch(caller, limit, address))
          /\ last' = [Idle EXCEPT !.op = "fetch", !.caller = caller,
                                  !.address = address, !.limit = limit]
  /\ UNCHANGED << botVars, now, serviceVars, handles, sessionVars, emitted >>

\* walletService.getLeaderboard answers a pending fetch; the caller goes on
FetchReturns(i, board) ==
  /\ i \in 1..Len(fetches)
  /\ LET f == fetches[i]
         r == Refresh([Service EXCEPT !.fetches = RemoveAt(fetches, i)],
                      getLeaderboard(board, f.limit))
         started == StartSession(r.service, session.options,
                                 WithTop(ExplicitTargets(session.options), r.list))
     IN /\ IF f.caller = "start"
           THEN session' = started.session /\ Commit(started.service)
           ELSE UNCHANGED session /\ Commit(r.service)
        /\ last' = [Idle EXCEPT
              !.op = "fetchReturns", !.caller = f.caller, !.address = f.address,
              !.limit = f.limit,
              !.answer = IF f.caller = "isSmartMoney"
                         THEN toLowerCase(f.address) \in r.service.smartMoneySet
                         ELSE MapHas(r.service.smartMoneyCache, toLowerCase(f.address)),
              !.refreshed = r.list]
  /\ UNCHANGED << botVars, now, handles, stats, tasks, backendCalls, stopCalls, emitted >>

\* walletService.getLeaderboard rejects: getSmartMoneyList rejects with it
FetchFails(i) ==
  /\ i \in 1..Len(fetches)
  /\ Commit([RefreshFailed(Service) EXCEPT !.fetches = RemoveAt(fetches, i)])
  /\ session' = IF fetches[i].caller = "start" THEN [session EXCEPT !.pc = "error"]
                ELSE session
  /\ last' = [Idle EXCEPT !.op = "fetchFails", !.caller = fetches[i].caller,
                          !.limit = fetches[i].limit]
  /\ UNCHANGED << botVars, now, handles, stats, tasks, backendCalls, stopCalls, emitted >>

\* The stream adapter reports an error to the open upstream subscription
StreamError ==
  /\ activeSubscription # 0
  /\ Commit(subscriptionOnError(Service))
  /\ last' = [Idle EXCEPT !.op = "streamError"]
  /\ UNCHANGED << botVars, now, handles, sessionVars, emitted >>

\* The object startAutoCopyTrading returns, as its holder reads it (id and
\* startTime left out): isActive is the literal `true` of the return statement,
\* and neither stop() nor anything else assigns it afterwards
AutoCopyTradingSubscription ==
  [ targetAddresses |-> session.targetAddresses, isActive |-> TRUE, stats |-> stats ]

\* The counters a holder of the subscription handle may write, and the values
StatsFields == { "tradesDetected", "tradesExecuted", "tradesSkipped", "tradesFailed",
                 "totalUsdcSpent" }
WrittenValues == { 0, 7 }

\* The caller assigns to a field of handle.stats, the `stats` object of the
\* closure that the returned subscription carries
WriteStats(field, value) ==
  /\ session.pc = "active"
  /\ stats' = [stats EXCEPT ![field] = value]
  /\ last' = [Idle EXCEPT !.op = "writeStats"]
  /\ UNCHANGED << botVars, now, serviceVars, fetches, handles, session, tasks, backendCalls,
                  stopCalls, emitted >>

\* The caller assigns to a field of an object returned by handle.getStats(),
\* a fresh copy `{ ...stats }`
WriteSnapshot(field, value) ==
  /\ session.pc = "active"
  /\ last' = [Idle EXCEPT !.op = "writeSnapshot"]
  /\ UNCHANGED << botVars, now, serviceVars, fetches, handles, sessionVars, emitted >>

\* setInterval (or startBot, the first time) calls mainLoop: the daily reset,
\* then checkPosition up to its await when a position is open, else the await
\* of getMarkets. startBot awaits the first run before it sets the interval.
MainLoop ==
  /\ loopCalls < MaxLoops
  /\ loopCalls = 1 => loops = <<>>
  /\ loopCalls' = loopCalls + 1
  /\ LET reset == IF now - state.dailyResetTime > DayLength
                  THEN [state EXCEPT !.dailyPnL = 0, !.dailyResetTime = now]
                  ELSE state
     IN /\ state' = reset
        /\ loops' = Append(loops, [ pc |-> IF reset.currentPosition # NoPosition
                                           THEN "orderbook" ELSE "markets",
                                    pnlAmount |-> 0 ])
  /\ entryOrders' = entryOrders
  /\ last' = [Idle EXCEPT !.op = "mainLoop"]
  /\ UNCHANGED << now, serviceVars, fetches, handles, sessionVars, emitted >>

\* gammaApi.getMarkets answers: the sample is pushed, and on momentum, when
\* shouldTrade() allows, enterPosition runs up to its await of getMarket
MarketsReturn(i, moved) ==
  /\ i \in 1..Len(loops)
  /\ loops[i].pc = "markets"
  /\ LET sampled == [state EXCEPT !.priceHistory = Min(2, @ + 1)]
     IN /\ state' = sampled
        /\ loops' = IF detectMomentum(sampled, moved) /\ shouldTrade(sampled)
                    THEN [loops EXCEPT ![i].pc = "getMarket"]
                    ELSE RemoveAt(loops, i)
  /\ UNCHANGED << loopCalls, entryOrders >>
  /\ last' = [Idle EXCEPT !.op = "marketsReturn"]
  /\ UNCHANGED << now, serviceVars, fetches, handles, sessionVars, emitted >>

\* markets.getMarket answers in enterPosition: with two tokens the entry order
\* is submitted (createMarketOrder is called and awaited)
GetMarketReturns(i, valid) ==
  /\ i \in 1..Len(loops)
  /\ loops[i].pc = "getMarket"
  /\ IF valid
     THEN /\ loops' = [loops EXCEPT ![i].pc = "entryOrder"]
          /\ entryOrders' = entryOrders + 1
          /\ last' = [Idle EXCEPT !.op = "entryOrder"]
     ELSE /\ loops' = RemoveAt(loops, i)
          /\ entryOrders' = entryOrders
          /\ last' = [Idle EXCEPT !.op = "invalidMarket"]
  /\ UNCHANGED << state, loopCalls >>
  /\ UNCHANGED << now, serviceVars, fetches, handles, sessionVars, emitted >>

\* The entry order's promise resolves: the position and lastTradeTime are
\* recorded (the Telegram message that follows changes nothing)
EntryOrderReturns(i) ==
  /\ i \in 1..Len(loops)
  /\ loops[i].pc = "entryOrder"
  /\ state' = [state EXCEPT !.currentPosition = OpenPosition, !.lastTradeTime = now]
  /\ loops' = RemoveAt(loops, i)
  /\ UNCHANGED << loopCalls, entryOrders >>
  /\ last' = [Idle EXCEPT !.op = "entryOrderReturns"]
  /\ UNCHANGED << now, serviceVars, fetches, handles, sessionVars, emitted >>

\* An awaited call of the SDK rejects: the try/catch around it logs the error
\* and the run ends
AwaitRaises(i) ==
  /\ i \in 1..Len(loops)
  /\ loops[i].pc \in {"markets", "getMarket", "entryOrder", "orderbook", "exitOrder"}
  /\ loops' = RemoveAt(loops, i)
  /\ entryOrders' = IF loops[i].pc = "entryOrder" THEN entryOrders - 1 ELSE entryOrders
  /\ UNCHANGED << state, loopCalls >>
  /\ last' = [Idle EXCEPT !.op = "awaitRaises"]
  /\ UNCHANGED << now, serviceVars, fetches, handles, sessionVars, emitted >>

\* getTokenOrderbook answers in checkPosition: reading state.currentPosition
\* raises when another run has closed the position meanwhile; at take-profit
\* or stop-loss (exit) the closing order is submitted
OrderbookReturns(i, exit, pnlAmount) ==
  /\ i \in 1..Len(loops)
  /\ loops[i].pc = "orderbook"
  /\ loops' = IF state.currentPosition # NoPosition /\ exit
              THEN [loops EXCEPT ![i].pc = "exitOrder", ![i].pnlAmount = pnlAmount]
              ELSE RemoveAt(loops, i)
  /\ UNCHANGED << state, loopCalls, entryOrders >>
  /\ last' = [Idle EXCEPT !.op = "orderbookReturns"]
  /\ UNCHANGED << now, serviceVars, fetches, handles, sessionVars, emitted >>

\* The closing order's promise resolves: dailyPnL is updated and the Telegram
\* message is awaited (building it raises when the position is gone)
ExitOrderReturns(i) ==
  /\ i \in 1..Len(loops)
  /\ loops[i].pc = "exitOrder"
  /\ state' = [state EXCEPT !.dailyPnL = @ + loops[i].pnlAmount]
  /\ loops' = IF state.currentPosition # NoPosition
              THEN [loops EXCEPT ![i].pc = "closing"]
              ELSE RemoveAt(loops, i)
  /\ UNCHANGED << loopCalls, entryOrders >>
  /\ last' = [Idle EXCEPT !.op = "exitOrderReturns"]
  /\ UNCHANGED << now, serviceVars, fetches, handles, sessionVars, emitted >>

\* sendTelegram returns in checkPosition: state.currentPosition = null
PositionClosed(i) ==
  /\ i \in 1..Len(loops)
  /\ loops[i].pc = "closing"
  /\ state' = [state EXCEPT !.currentPosition = NoPosition]
  /\ loops' = RemoveAt(loops, i)
  /\ entryOrders' = 0
  /\ UNCHANGED loopCalls
  /\ last' = [Idle EXCEPT !.op = "positionClosed"]
  /\ UNCHANGED << now, serviceVars, fetches, handles, sessionVars, emitted >>

\* ---------------------------------------------------------- specifications
\* The steps of the per-trade handler, for the events and behaviours given
HandlerSteps(events) ==
  \/ \E event \in events, b \in Behaviours : Emit(event, {}, b)
  \/ \E i \in 1..MaxEvents, b \in Behaviours : Timer(i, b)
  \/ \E i \in 1..MaxEvents, success \in BOOLEAN, b \in Behaviours :
       OrderReturns(i, success, b)
  \/ \E i \in 1..MaxEvents, b \in Behaviours : OrderRaises(i, b)

FetchSteps(boards) ==
  \/ \E i \in 1..MaxFetches, board \in boards : FetchReturns(i, board)
  \/ \E i \in 1..MaxFetches : FetchFails(i)

\* The session's callbacks either all return or all raise
SubBehaviours == { b \in Behaviours : b.backend = "ok" /\ b.cbT = b.cbE }

EmitSteps(events) ==
  \E event \in events, throwing \in SUBSET Fns, b \in SubBehaviours :
    Emit(event, throwing, b)

\* Copy trading: one session on explicit targets, alone on the stream
CopyOptions == { o \in AutoCopyOptions : o.topN = 0 /\ Len(o.targetAddresses) > 0 }

CopyEvents ==
  { BaseEvent, [BaseEvent EXCEPT !.address = "0xc"], [BaseEvent EXCEPT !.size = 10],
    [BaseEvent EXCEPT !.size = 2000], [BaseEvent EXCEPT !.size = 10, !.price = 200],
    [BaseEvent EXCEPT !.side = "SELL"], [BaseEvent EXCEPT !.asset = NoToken] }

CopyNext ==
  \/ \E options \in CopyOptions : StartAutoCopy(options)
  \/ Stop
  \/ HandlerSteps(CopyEvents)

SpecCopy == Init /\ [][CopyNext]_vars

\* Subscription lifecycle: the session among other consumers' handles
SubEvents == { BaseEvent, [BaseEvent EXCEPT !.address = "0xb"],
               [BaseEvent EXCEPT !.address = ""] }

SubOptions == { o \in CopyOptions : o.dryRun /\ o.delay > 0 }

SubNext ==
  \/ \E fn \in Fns, options \in ListenerOptions : Subscribe(fn, options)
  \/ \E h \in 1..MaxHandles : Unsubscribe(h)
  \/ Disconnect
  \/ \E options \in SubOptions : StartAutoCopy(options)
  \/ Stop
  \/ EmitSteps(SubEvents)
  \/ \E i \in 1..MaxEvents, b \in SubBehaviours : Timer(i, b)

SpecSub == Init /\ [][SubNext]_vars

\* Cache: refreshes, expiry, lookups, and the stream's smart-money flag
CacheNext ==
  \/ Tick
  \/ Lookup("isSmartMoney", DefaultLimit, "0xA")
  \/ Lookup("getSmartMoneyInfo", DefaultLimit, "0xA")
  \/ \E limit \in {1, DefaultLimit} : Lookup("getSmartMoneyList", limit, NoAddress)
  \/ FetchSteps(Boards)
  \/ \E options \in {o \in ListenerOptions : Len(o.filterAddresses) = 0} :
       Subscribe("f", options)
  \/ Unsubscribe(1)
  \/ Disconnect
  \/ EmitSteps({BaseEvent, [BaseEvent EXCEPT !.address = "0xb"]})

SpecCache == Init /\ [][CacheNext]_vars

\* Refreshes alone: every caller of getSmartMoneyList (the lookups and the
\* warm-up of a subscribe), the provider answering or failing, and expiry
RefreshNext ==
  \/ Tick
  \/ Lookup("isSmartMoney", DefaultLimit, "0xA")
  \/ Lookup("getSmartMoneyInfo", DefaultLimit, "0xA")
  \/ \E limit \in {1, DefaultLimit} : Lookup("getSmartMoneyList", limit, NoAddress)
  \/ FetchSteps(Boards)
  \/ Subscribe("f", NoOptions)

SpecRefresh == Init /\ [][RefreshNext]_vars

\* Session start: explicit targets, topN, both or neither, on a cache that is
\* empty, being fetched or already populated, beside one other listener
StartNext ==
  \/ \E options \in AutoCopyOptions : StartAutoCopy(options)
  \/ Stop
  \/ FetchSteps(Boards)
  \/ Subscribe("f", NoOptions)
  \/ Unsubscribe(1)

SpecStart == Init /\ [][StartNext]_vars

\* Filtering: two consumers, each with its own callback and option set, and a
\* session, registering and leaving in any order
FilterCalls ==
  { [ fn |-> "f", options |-> [ filterAddresses |-> << "0xA" >>, minSize |-> 0,
                                smartMoneyOnly |-> FALSE ] ],
    [ fn |-> "g", options |-> [ filterAddresses |-> <<>>, minSize |-> 50,
                                smartMoneyOnly |-> FALSE ] ] }

FilterEvents ==
  { [BaseEvent EXCEPT !.address = a, !.size = n] :
      a \in {"0xA", "0xa", "0xb", NoAddress}, n \in {10, 100} }

FilterNext ==
  \/ \E call \in FilterCalls : Subscribe(call.fn, call.options)
  \/ \E h \in 1..MaxHandles : Unsubscribe(h)
  \/ \E options \in SubOptions : StartAutoCopy(options)
  \/ Stop
  \/ \E event \in FilterEvents, b \in SubBehaviours : Emit(event, {}, b)
  \/ \E i \in 1..MaxEvents, b \in SubBehaviours : Timer(i, b)

SpecFilter == Init /\ [][FilterNext]_vars

\* Sizing and pricing: one session per configuration, each option varied from
\* the defaults, on source trades of many sizes, prices and sides; the backend
\* answers and the callbacks return
OrderOptions ==
  { BaseOptions,
    [BaseOptions EXCEPT !.given = {"targetAddresses", "maxSizePerTrade"},
                        !.maxSizePerTrade = 0],
    [BaseOptions EXCEPT !.given = {"targetAddresses", "maxSlippage"}, !.maxSlippage = 0],
    [BaseOptions EXCEPT !.given = {"targetAddresses", "maxSlippage", "sideFilter"},
                        !.maxSlippage = 99, !.sideFilter = "SELL"],
    [BaseOptions EXCEPT !.given = {"targetAddresses", "sizeScale", "orderType"},
                        !.sizeScale = 10, !.orderType = "FAK"],
    [BaseOptions EXCEPT !.given = {"targetAddresses", "delay", "minTradeSize"},
                        !.delay = 1, !.minTradeSize = 1],
    [BaseOptions EXCEPT !.given = {"targetAddresses", "dryRun", "minTradeSize"},
                        !.dryRun = TRUE, !.minTradeSize = 1] }

OrderEvents ==
  { [BaseEvent EXCEPT !.size = n, !.price = p] : n \in {5, 10, 100, 2000}, p \in {50, 60, 200} }
  \cup { [BaseEvent EXCEPT !.size = n, !.price = 60, !.side = "SELL"] : n \in {10, 100, 2000} }
  \cup { [BaseEvent EXCEPT !.address = "0xc"], [BaseEvent EXCEPT !.asset = NoToken] }

Returning == CHOOSE b \in Behaviours : b.backend = "ok" /\ b.cbT = "ok" /\ b.cbE = "ok"

OrderNext ==
  \/ \E options \in OrderOptions : StartAutoCopy(options)
  \/ \E event \in OrderEvents : Emit(event, {}, Returning)
  \/ \E i \in 1..MaxEvents : Timer(i, Returning)
  \/ \E i \in 1..MaxEvents, success \in BOOLEAN : OrderReturns(i, success, Returning)

SpecOrder == Init /\ [][OrderNext]_vars

\* Two stream events, of a wallet of the first board and of one of the second
StartEvents == { BaseEvent, [BaseEvent EXCEPT !.address = "0xb"] }

\* The subscription handle in its caller's hands
HandleNext ==
  \/ \E options \in SubOptions : StartAutoCopy(options)
  \/ Stop
  \/ \E event \in StartEvents : Emit(event, {}, Returning)
  \/ \E i \in 1..MaxEvents : Timer(i, Returning)
  \/ \E field \in StatsFields, value \in WrittenValues : WriteStats(field, value)
  \/ \E field \in StatsFields, value \in WrittenValues : WriteSnapshot(field, value)

SpecHandle == Init /\ [][HandleNext]_vars

\* Errors of the providers: the stream reports errors, warm-up fetches fail
ErrorsNext ==
  \/ \E fn \in Fns : Subscribe(fn, NoOptions)
  \/ \E h \in 1..MaxHandles : Unsubscribe(h)
  \/ StreamError
  \/ FetchSteps({ board \in Boards : Len(board) = 2 })
  \/ \E event \in StartEvents : Emit(event, {}, Returning)

SpecErrors == Init /\ [][ErrorsNext]_vars

\* Cache and stream: overlapping refreshes, disconnect(), and events flagged
\* from the cache
ConsistencyNext ==
  \/ Lookup("isSmartMoney", DefaultLimit, "0xA")
  \/ FetchSteps(Boards)
  \/ Subscribe("f", NoOptions)
  \/ Disconnect
  \/ \E event \in StartEvents : Emit(event, {}, Returning)

SpecConsistency == Init /\ [][ConsistencyNext]_vars

\* A session on the topN cohort with a post-detection delay, while the cache
\* is refreshed by others and cleared by disconnect()
RecheckOptions ==
  { [BaseOptions EXCEPT !.given = {"topN", "delay"}, !.targetAddresses = <<>>,
                        !.topN = 2, !.delay = 1] }

RecheckNext ==
  \/ \E options \in RecheckOptions : StartAutoCopy(options)
  \/ Subscribe("f", NoOptions)
  \/ FetchSteps(Boards)
  \/ Disconnect
  \/ \E event \in StartEvents : Emit(event, {}, Returning)
  \/ \E i \in 1..MaxEvents : Timer(i, Returning)
  \/ \E i \in 1..MaxEvents, success \in BOOLEAN : OrderReturns(i, success, Returning)

SpecRecheck == Init /\ [][RecheckNext]_vars

\* Completion: the session's runs suspended at the delay or at the backend,
\* where every pending timer fires and every pending backend call returns or
\* raises
LiveOptions == { o \in CopyOptions : ~o.dryRun }

LiveEvents ==
  { BaseEvent, [BaseEvent EXCEPT !.asset = NoToken], [BaseEvent EXCEPT !.side = "SELL"] }

LiveNext ==
  \/ \E options \in LiveOptions : StartAutoCopy(options)
  \/ Stop
  \/ HandlerSteps(LiveEvents)

TimersFire == \E i \in 1..MaxEvents, b \in Behaviours : Timer(i, b)

BackendAnswers ==
  \/ \E i \in 1..MaxEvents, success \in BOOLEAN, b \in Behaviours :
       OrderReturns(i, success, b)
  \/ \E i \in 1..MaxEvents, b \in Behaviours : OrderRaises(i, b)

SpecLive ==
  Init /\ [][LiveNext]_vars /\ WF_vars(TimersFire) /\ WF_vars(BackendAnswers)

\* Targets: a session that submits and one that simulates after a delay, on a
\* stream shared with a listener whose options admit every address
TargetOptions == { o \in CopyOptions : o.targetAddresses = << "0xA" >> /\ (o.dryRun <=> o.delay > 0) }

TargetEvents == { [BaseEvent EXCEPT !.address = a] : a \in {"0xA", "0xb", "0xc"} }

TargetsNext ==
  \/ Subscribe("g", NoOptions)
  \/ \E options \in TargetOptions : StartAutoCopy(options)
  \/ \E event \in TargetEvents : Emit(event, {}, Returning)
  \/ \E i \in 1..MaxEvents : Timer(i, Returning)
  \/ \E i \in 1..MaxEvents, success \in BOOLEAN : OrderReturns(i, success, Returning)

SpecTargets == Init /\ [][TargetsNext]_vars

\* Registrations: consumers subscribing with either callback, the first handle
\* handed out being unsubscribed at any time, and disconnect()
RegistrationsNext ==
  \/ \E fn \in Fns : Subscribe(fn, NoOptions)
  \/ Unsubscribe(1)
  \/ Disconnect
  \/ \E event \in StartEvents : Emit(event, {}, Returning)

SpecRegistrations == Init /\ [][RegistrationsNext]_vars

\* Momentum bot: mainLoop runs started by the interval while earlier runs are
\* still awaiting, prices moving or not, SDK calls answering or failing
BotNext ==
  \/ Tick
  \/ MainLoop
  \/ \E i \in 1..MaxLoops, moved \in BOOLEAN : MarketsReturn(i, moved)
  \/ \E i \in 1..MaxLoops, valid \in BOOLEAN : GetMarketReturns(i, valid)
  \/ \E i \in 1..MaxLoops : EntryOrderReturns(i)
  \/ \E i \in 1..MaxLoops : AwaitRaises(i)
  \/ \E i \in 1..MaxLoops, exit \in BOOLEAN, pnlAmount \in PnlAmounts :
       OrderbookReturns(i, exit, pnlAmount)
  \/ \E i \in 1..MaxLoops : ExitOrderReturns(i)
  \/ \E i \in 1..MaxLoops : PositionClosed(i)

SpecBot == Init /\ [][BotNext]_vars

\* ------------------------------------------------------------------ claims
\* The replica notional the sizing rules give a source trade, in thousandths
Notional(trade, cfg) ==
  Min(trade.size * cfg.sizeScale * trade.price, cfg.maxSizePerTrade * Milli)

\* The trade passes the target, minTradeSize, sideFilter, minimum-order and
\* token checks of the session
Qualifies(trade) ==
  /\ trade.traderAddress \in Range(session.targetAddresses)
  /\ trade.size * trade.price >= session.cfg.minTradeSize * PriceDen
  /\ session.cfg.sideFilter \in {"", trade.side}
  /\ Notional(trade, session.cfg) >= MIN_ORDER_SIZE * Milli
  /\ trade.tokenId # NoToken

Classified == stats.tradesExecuted + stats.tradesSkipped + stats.tradesFailed

\* C1. Sizing clamp: every order the session dispatches, submitted to the
\* backend or simulated in a dry run, has a notional of at most
\* maxSizePerTrade.
SizingClamp ==
  last.order # NoOrder => last.order.amount <= session.cfg.maxSizePerTrade * Milli

\* C1 witness: an order was dispatched for a source trade whose scaled notional
\* is above the maximum, and it carries exactly the maximum.
SizingClampWitness ==
  /\ last.order # NoOrder
  /\ last.trade.size * session.cfg.sizeScale * last.trade.price
       > session.cfg.maxSizePerTrade * Milli
  /\ last.order.amount = session.cfg.maxSizePerTrade * Milli

\* C2. Monotonic stats: in every reachable state tradesDetected is at least
\* tradesSkipped + tradesExecuted + tradesFailed, whatever the backend returns
\* or raises and whatever the onTrade and onError callbacks do.
MonotonicStats == stats.tradesDetected >= Classified

\* C3. Dry run: in a dryRun session every qualifying trade that the handler
\* carries to its end adds one to tradesExecuted and its notional to
\* totalUsdcSpent, and createMarketOrder is never called.
DryRun ==
  [][ session'.cfg.dryRun =>
        /\ backendCalls' = 0
        /\ \A i \in 1..Len(tasks') : tasks'[i].pc # "order"
        /\ ( /\ \/ last'.op = "timer"
                \/ last'.op = "emit" /\ CopyFn \in Range(last'.recipients)
                                     /\ session.cfg.delay = 0
             /\ Qualifies(last'.trade) )
           => /\ stats'.tradesExecuted = stats.tradesExecuted + 1
              /\ stats'.totalUsdcSpent =
                   stats.totalUsdcSpent + Notional(last'.trade, session.cfg) ]_vars

\* C3 witness: a dry-run session has executed a delayed and clamped trade
DryRunWitness ==
  /\ session.cfg.dryRun
  /\ last.op = "timer"
  /\ Qualifies(last.trade)
  /\ stats.tradesExecuted = 2
  /\ stats.totalUsdcSpent > session.cfg.maxSizePerTrade * Milli

InFlightSurvivesStop ==
  [][ /\ last'.op = "stop" => tasks' = tasks
      /\ (stopCalls > 0 /\ last'.op \in {"timer", "orderReturns", "orderRaises"}) =>
           /\ Len(tasks') <= Len(tasks)
           /\ (last'.op = "timer" /\ last'.trade.tokenId # NoToken)
                => last'.order = Order(last'.trade, Notional(last'.trade, session.cfg),
                                       session.cfg)
           /\ Len(tasks') < Len(tasks) =>
                /\ last'.outcome \in {"executed", "skipped", "failed"}
                /\ Classified' > Classified ]_vars

\* C9 witness: after stop(), a delayed run has submitted its order and the
\* backend's answer was counted as executed
InFlightSurvivesStopWitness ==
  /\ stopCalls > 0
  /\ session.cfg.delay > 0
  /\ last.op = "orderReturns"
  /\ last.outcome = "executed"
  /\ stats.tradesExecuted = 1
  /\ stats.tradesDetected = 1

\* C5. Listener isolation: a trade that passed the filters is handed to every
\* listener registered at that moment, whichever of them raise, and the
\* listener set and the upstream subscription are as before afterwards.
ListenerIsolation ==
  (last.op = "emit" /\ last.delivered) =>
    /\ last.recipients = last.registered
    /\ CopyFn \in Range(last.registered) => last.outcome # "none"
    /\ tradeHandlers = last.registered
    /\ activeSubscription # 0

\* C5 witness: a listener raised and a listener registered after it received
\* the same trade
ListenerIsolationWitness ==
  /\ last.op = "emit"
  /\ \E i, j \in 1..Len(last.recipients) :
       /\ i < j
       /\ last.recipients[i] \in last.threw
       /\ last.recipients[j] \notin last.threw
       /\ last.registered[j] = last.recipients[j]

\* The upstream subscriptions that were opened and not unsubscribed
OpenUpstreams == { i \in 1..Len(upstreamUnsubs) : upstreamUnsubs[i] = 0 }

\* C6. Shared upstream subscription: at most one upstream subscription is
\* open, and one is open exactly when a listener is registered.
SharedUpstream ==
  /\ Cardinality(OpenUpstreams) <= 1
  /\ OpenUpstreams = IF Len(tradeHandlers) > 0 THEN {activeSubscription} ELSE {}
  /\ activeSubscription # 0 <=> Len(tradeHandlers) > 0

\* C6 witness: after the last listener left and the upstream was closed, two
\* listeners share the second upstream subscription
SharedUpstreamWitness ==
  /\ Len(tradeHandlers) >= 2
  /\ upstreamUnsubs = << 1, 0 >>
  /\ activeSubscription = 2

\* C7. Idempotent stop: a second or later stop() changes nothing, and no
\* upstream subscription is unsubscribed more than once.
IdempotentStop ==
  [][ /\ (last'.op = "stop" /\ stopCalls >= 1) =>
           UNCHANGED << serviceVars, fetches, session, stats, tasks, backendCalls >>
      /\ \A i \in 1..Len(upstreamUnsubs') : upstreamUnsubs'[i] <= 1 ]_vars

\* C7 witness: stop() was called a second time while listeners that registered
\* after the first stop() closed the upstream hold a new one
IdempotentStopWitness ==
  /\ last.op = "stop"
  /\ stopCalls = 2
  /\ Len(tradeHandlers) > 0
  /\ upstreamUnsubs = << 1, 0 >>

\* C8. Cancellation takes effect: from the first stop() on the session's
\* handler is in no listener set, no event is handed to it, and
\* tradesDetected stays as it is.
CancellationTakesEffect ==
  [][ stopCalls >= 1 =>
        /\ stats'.tradesDetected = stats.tradesDetected
        /\ CopyFn \notin Range(tradeHandlers')
        /\ last'.op = "emit" => CopyFn \notin Range(last'.recipients) ]_vars

\* C8 witness: after stop() an event passed the filters and was handed to the
\* listeners that remain, while a run of the session's handler is suspended
CancellationTakesEffectWitness ==
  /\ stopCalls >= 1
  /\ last.op = "emit"
  /\ last.delivered
  /\ Len(last.recipients) > 0
  /\ Len(tasks) > 0
  /\ toLowerCase(last.event.address) \in Range(session.targetAddresses)

\* C10. Cohort eviction: once a refresh has completed, the members are the
\* wallets of that refresh's response that meet minPnl, and no others.
CohortEviction ==
  last.op = "fetchReturns" =>
    /\ smartMoneySet \subseteq { last.refreshed[i].address : i \in 1..Len(last.refreshed) }
    /\ \A i \in 1..Len(smartMoneyCache) :
         smartMoneyCache[i].address \in
           { last.refreshed[j].address : j \in 1..Len(last.refreshed) }

\* C11. Cache freshness: once a refresh has completed, no step taken while
\* now - cacheTimestamp < cacheTtl calls the leaderboard provider, whatever the
\* provider answered.
CacheFreshness ==
  [][ (cacheTimestamp > 0 /\ now - cacheTimestamp < CacheTtl)
        => /\ Len(fetches') <= Len(fetches)
           /\ last'.op # "fetch" ]_vars

\* C12. Failed refresh keeps the cache: when getLeaderboard rejects, the wallet
\* map, the membership set and cacheTimestamp are as before the attempt.
FailedRefreshKeepsCache ==
  [][ last'.op = "fetchFails" => UNCHANGED cacheVars ]_vars

\* C12 witness: the refresh of a cache that had expired failed, and the stale
\* wallets are still there
FailedRefreshKeepsCacheWitness ==
  /\ last.op = "fetchFails"
  /\ Len(smartMoneyCache) > 0
  /\ smartMoneySet # {}
  /\ cacheTimestamp > 0
  /\ now - cacheTimestamp >= CacheTtl

\* list is board with some entries left out
RECURSIVE IsSubSeq(_, _)
IsSubSeq(list, board) ==
  IF list = <<>> THEN TRUE
  ELSE IF board = <<>> THEN FALSE
  ELSE IF Head(list) = Head(board) THEN IsSubSeq(Tail(list), Tail(board))
  ELSE IsSubSeq(list, Tail(board))

\* C13. getSmartMoneyList(limit) returns at most `limit` wallets, each with
\* pnl >= minPnl, in the order of a provider board, when it refreshes and when
\* it answers from a valid cache.
ListLimit ==
  ( \/ last.op = "getSmartMoneyList"
    \/ last.op = "fetchReturns" /\ last.caller = "getSmartMoneyList" )
  => /\ Len(last.refreshed) <= last.limit
     /\ \A i \in 1..Len(last.refreshed) : last.refreshed[i].pnl >= DefaultMinPnl
     /\ \E board \in Boards :
          IsSubSeq(last.refreshed, [ i \in 1..Len(board) |-> Wallet(board[i]) ])

\* The step that ended a startAutoCopyTrading call
StartEnded ==
  \/ last.op = "start" /\ session.pc # "resolving"
  \/ last.op = "fetchReturns" /\ last.caller = "start"

\* C14. Target set resolution: the targetAddresses of a started session are
\* lower-case, without duplicates, and are the explicit addresses together
\* with the addresses of the cohort obtained for topN.
TargetSetResolution ==
  session.pc = "active" =>
    /\ \A i \in 1..Len(session.targetAddresses) :
         toLowerCase(session.targetAddresses[i]) = session.targetAddresses[i]
    /\ Cardinality(Range(session.targetAddresses)) = Len(session.targetAddresses)
    /\ StartEnded =>
         Range(session.targetAddresses) =
           { toLowerCase(a) : a \in Range(session.options.targetAddresses) }
           \cup { last.refreshed[i].address : i \in 1..Len(last.refreshed) }

\* C15. Configuration error: a start that resolves no target address fails,
\* and it has registered no listener and opened no upstream subscription.
ConfigurationError ==
  [][ /\ session'.pc = "active" => Len(session'.targetAddresses) > 0
      /\ (session.pc # "error" /\ session'.pc = "error") =>
           /\ CopyFn \notin Range(tradeHandlers')
           /\ tradeHandlers' = tradeHandlers
           /\ activeSubscription' = activeSubscription
           /\ upstreamUnsubs' = upstreamUnsubs
           /\ upstreamOptions' = upstreamOptions ]_vars

\* C15 witness: topN was given, the cohort came back empty, and the start failed
\* beside another consumer's listener, which still holds the one upstream
ConfigurationErrorWitness ==
  /\ session.pc = "error"
  /\ last.op = "fetchReturns"
  /\ last.caller = "start"
  /\ last.refreshed = <<>>
  /\ session.options.topN > 0
  /\ tradeHandlers = << "f" >>
  /\ upstreamUnsubs = << 0 >>

\* C15 witness of the other case: neither targetAddresses nor topN was given
ConfigurationErrorUnset ==
  /\ session.pc = "error"
  /\ last.op = "start"
  /\ session.options.given = {}
  /\ tradeHandlers = <<>>
  /\ activeSubscription = 0

\* The option set a registered listener passed to subscribeSmartMoneyTrades
RegisteredOptions(fn) ==
  IF fn = CopyFn
  THEN [ filterAddresses |-> session.targetAddresses,
         minSize |-> session.cfg.minTradeSize, smartMoneyOnly |-> FALSE ]
  ELSE (CHOOSE call \in FilterCalls : call.fn = fn).options

\* C16. Per-listener filtering: a stream event is handed to a registered
\* listener exactly when it passes the option set that listener registered
\* with.
PerListenerFiltering ==
  last.op = "emit" =>
    \A fn \in Range(tradeHandlers) :
      fn \in Range(last.recipients) <=> PassesFilters(last.event, RegisteredOptions(fn))

\* C17. Address filter: with one registered listener whose filterAddresses is
\* non-empty, an event without a trader address or with an address outside
\* filterAddresses (compared in lower case) is dropped, and an event with an
\* address in it is handed on when it passes the size rule.
AddressFilter ==
  ( /\ last.op = "emit"
    /\ Len(tradeHandlers) = 1
    /\ Len(RegisteredOptions(tradeHandlers[1]).filterAddresses) > 0 )
  => LET options == RegisteredOptions(tradeHandlers[1])
         listed == { toLowerCase(a) : a \in Range(options.filterAddresses) }
     IN /\ last.event.address = NoAddress => last.recipients = <<>>
        /\ toLowerCase(last.event.address) \notin listed => last.recipients = <<>>
        /\ ( /\ last.event.address # NoAddress
             /\ toLowerCase(last.event.address) \in listed
             /\ last.event.size >= options.minSize )
           => last.recipients = tradeHandlers

\* C18. Execution failures are reported: whenever the session adds to
\* tradesFailed, after a rejection or after a raise, onError is called for
\* that trade, and the session's handler stays registered.
FailuresReported ==
  [][ stats'.tradesFailed > stats.tradesFailed =>
        /\ last'.onError >= 1
        /\ tradeHandlers' = tradeHandlers
        /\ activeSubscription' = activeSubscription ]_vars

\* C19. No escape from a running subscription: no run of the per-trade handler
\* ends with an exception leaving it, whatever the backend, onTrade and
\* onError do.
NoEscape == last.escaped = ""

\* C20. Spend accounting: totalUsdcSpent changes only in the step that
\* classifies a trade executed, by that trade's notional; a step that ends a
\* trade as skipped or failed leaves it alone; and it never exceeds
\* tradesExecuted * maxSizePerTrade.
SpendAccounting ==
  [][ /\ stats'.totalUsdcSpent # stats.totalUsdcSpent =>
           /\ last'.outcome = "executed"
           /\ stats'.tradesExecuted = stats.tradesExecuted + 1
           /\ stats'.totalUsdcSpent =
                stats.totalUsdcSpent + Notional(last'.trade, session.cfg)
      /\ last'.outcome \in {"skipped", "failed"} =>
           stats'.totalUsdcSpent = stats.totalUsdcSpent
      /\ stats.totalUsdcSpent <= stats.tradesExecuted * session.cfg.maxSizePerTrade * Milli
      /\ stats'.totalUsdcSpent
           <= stats'.tradesExecuted * session'.cfg.maxSizePerTrade * Milli ]_vars

\* C20 witness: of two orders in flight one was rejected and the other then
\* executed; only the notional of the executed one was spent
SpendAccountingWitness ==
  /\ last.op = "orderReturns"
  /\ last.outcome = "executed"
  /\ tasks = <<>>
  /\ backendCalls = 2
  /\ stats.tradesDetected = 2
  /\ stats.tradesExecuted = 1
  /\ stats.tradesFailed = 1
  /\ stats.totalUsdcSpent = Notional(last.trade, session.cfg)
  /\ stats.totalUsdcSpent > 0

\* The trade passes the checks the handler makes before its delay
PassesEarlyChecks(trade) ==
  /\ trade.traderAddress \in Range(session.targetAddresses)
  /\ trade.size * trade.price >= session.cfg.minTradeSize * PriceDen
  /\ session.cfg.sideFilter \in {"", trade.side}
  /\ Notional(trade, session.cfg) >= MIN_ORDER_SIZE * Milli

\* C21. A skip has no other effect: a run of the handler that rejects a trade
\* of a target at the minTradeSize, sideFilter, minimum-order or token check
\* adds one to tradesSkipped, leaves the other counters and the spend alone,
\* and calls neither the backend nor onTrade nor onError.
SkipHasNoOtherEffect ==
  [][ ( \/ /\ last'.op = "emit"
            /\ CopyFn \in Range(last'.recipients)
            /\ last'.trade.traderAddress \in Range(session.targetAddresses)
            /\ \/ ~PassesEarlyChecks(last'.trade)
               \/ session.cfg.delay = 0 /\ last'.trade.tokenId = NoToken
        \/ last'.op = "timer" /\ last'.trade.tokenId = NoToken )
      => /\ stats'.tradesSkipped = stats.tradesSkipped + 1
         /\ stats'.tradesExecuted = stats.tradesExecuted
         /\ stats'.tradesFailed = stats.tradesFailed
         /\ stats'.totalUsdcSpent = stats.totalUsdcSpent
         /\ backendCalls' = backendCalls
         /\ tasks' \in {tasks} \cup {RemoveAt(tasks, i) : i \in 1..Len(tasks)}
         /\ last'.order = NoOrder
         /\ last'.onTrade = 0
         /\ last'.onError = 0 ]_vars

\* C21 witness: a delayed run found its trade without token id and skipped it,
\* after an earlier trade was skipped at one of the first checks
SkipHasNoOtherEffectWitness ==
  /\ last.op = "timer"
  /\ last.trade.tokenId = NoToken
  /\ last.outcome = "skipped"
  /\ stats.tradesSkipped = 2
  /\ stats.tradesDetected = 2
  /\ stats.tradesFailed = 0
  /\ backendCalls = 0

\* C22. Small source trades are counted as skipped: a stream event of a target
\* with size * price below minTradeSize adds one to tradesDetected and one to
\* tradesSkipped of the registered session, and nothing is dispatched.
SmallTradesSkipped ==
  [][ ( /\ last'.op = "emit"
        /\ CopyFn \in Range(tradeHandlers)
        /\ toLowerCase(last'.event.address) \in Range(session.targetAddresses)
        /\ last'.event.size * last'.event.price < session.cfg.minTradeSize * PriceDen )
      => /\ stats'.tradesDetected = stats.tradesDetected + 1
         /\ stats'.tradesSkipped = stats.tradesSkipped + 1
         /\ last'.order = NoOrder
         /\ tasks' = tasks
         /\ backendCalls' = backendCalls ]_vars

\* C23. Minimum order floor: no order is dispatched with a notional below
\* MIN_ORDER_SIZE, and a trade that passes the first checks with a clamped
\* notional below it is skipped.
MinimumOrderFloor ==
  [][ /\ last'.order # NoOrder => last'.order.amount >= MIN_ORDER_SIZE * Milli
      /\ ( /\ last'.op = "emit"
            /\ CopyFn \in Range(last'.recipients)
            /\ last'.trade.traderAddress \in Range(session.targetAddresses)
            /\ last'.trade.size * last'.trade.price >= session.cfg.minTradeSize * PriceDen
            /\ session.cfg.sideFilter \in {"", last'.trade.side}
            /\ Notional(last'.trade, session.cfg) < MIN_ORDER_SIZE * Milli )
          => /\ stats'.tradesSkipped = stats.tradesSkipped + 1
             /\ last'.outcome = "skipped"
             /\ last'.order = NoOrder
             /\ tasks' = tasks
             /\ backendCalls' = backendCalls ]_vars

\* C23 witness: in a session whose maxSizePerTrade is below the floor, a trade
\* large enough for minTradeSize was clamped and skipped, like the one before it
MinimumOrderFloorWitness ==
  /\ session.cfg.maxSizePerTrade < MIN_ORDER_SIZE
  /\ last.op = "emit"
  /\ last.outcome = "skipped"
  /\ last.trade.size * last.trade.price >= session.cfg.minTradeSize * PriceDen
  /\ last.trade.tokenId # NoToken
  /\ stats.tradesSkipped = 2
  /\ backendCalls = 0

\* C24. Copy decision: a trade of a target handed to the session is dispatched
\* exactly when it passes the minTradeSize, sideFilter, minimum-order and token
\* checks, and the order then carries the clamped notional, the source side,
\* the source token and the configured orderType.
CopyDecision ==
  [][ /\ ( \/ last'.op = "timer"
            \/ /\ last'.op = "emit"
               /\ CopyFn \in Range(last'.recipients)
               /\ session.cfg.delay = 0 )
          => (last'.order # NoOrder <=> Qualifies(last'.trade))
      /\ ( /\ last'.op = "emit"
            /\ CopyFn \in Range(last'.recipients)
            /\ session.cfg.delay > 0 )
          => /\ last'.order = NoOrder
             /\ IF PassesEarlyChecks(last'.trade)
                THEN tasks' = Append(tasks, [ pc |-> "delay", trade |-> last'.trade,
                                              usdcAmount |-> Notional(last'.trade, session.cfg) ])
                ELSE tasks' = tasks
      /\ last'.order # NoOrder =>
           /\ last'.order.amount = Notional(last'.trade, session.cfg)
           /\ last'.order.side = last'.trade.side
           /\ last'.order.tokenId = last'.trade.tokenId
           /\ last'.order.orderType = session.cfg.orderType ]_vars

\* C24 witness: size 100 at price 0.5 with sizeScale 0.1, maxSizePerTrade 50
\* and minTradeSize 10 was dispatched with notional 5
CopyDecisionWitness ==
  /\ last.op = "emit"
  /\ last.trade.size = 100
  /\ last.trade.price = 50
  /\ session.cfg.sizeScale = 1
  /\ session.cfg.maxSizePerTrade = 50
  /\ session.cfg.minTradeSize = 10
  /\ last.order # NoOrder
  /\ last.order.amount = 5 * Milli
  /\ last.order.orderType = "FOK"

\* C25. Slippage bound: an order submitted to the backend carries
\* price * (1 + maxSlippage) for a BUY and price * (1 - maxSlippage) for a
\* SELL, which is at least the source price on a BUY and at most on a SELL.
SlippageBound ==
  (last.order # NoOrder /\ ~last.order.dryRun) =>
    /\ last.trade.side = "BUY" =>
         /\ last.order.price = last.trade.price * (PriceDen + session.cfg.maxSlippage)
         /\ last.order.price >= last.trade.price * PriceDen
    /\ last.trade.side = "SELL" =>
         /\ last.order.price = last.trade.price * (PriceDen - session.cfg.maxSlippage)
         /\ last.order.price <= last.trade.price * PriceDen
    /\ last.trade.side \in {"BUY", "SELL"}

\* C25 witness: a BUY at 0.60 with maxSlippage 0.03 was submitted with limit
\* price 0.618
SlippageBoundWitness ==
  /\ last.order # NoOrder
  /\ ~last.order.dryRun
  /\ backendCalls > 0
  /\ last.trade.side = "BUY"
  /\ last.trade.price = 60
  /\ session.cfg.maxSlippage = 3
  /\ last.order.price = 6180

\* C25 witness of the other side: a SELL was submitted below the source price
SlippageBoundSell ==
  /\ last.order # NoOrder
  /\ ~last.order.dryRun
  /\ last.trade.side = "SELL"
  /\ session.cfg.maxSlippage = 99
  /\ last.order.price < last.trade.price * PriceDen

\* C26. Live counters are protected from callers: no write of the caller to
\* an object it got from the subscription handle changes the session's live
\* counters.
LiveCountersProtected ==
  [][ last'.op \in {"writeStats", "writeSnapshot"} => stats' = stats ]_vars

\* C27. Transient provider errors do not tear anything down: an error
\* reported by the stream, or a failed warm-up fetch of a subscribe, leaves
\* the listener set and the upstream subscription as they are, and an event
\* that passes the filters is handed to every registered listener.
TransientErrors ==
  [][ /\ ( \/ last'.op = "streamError"
           \/ (last'.op = "fetchFails" /\ last'.caller = "warm") )
          => UNCHANGED << tradeHandlers, activeSubscription, upstreamOptions,
                          upstreamUnsubs >>
      /\ (last'.op = "emit" /\ PassesFilters(last'.event, upstreamOptions))
          => /\ last'.delivered
             /\ last'.recipients = tradeHandlers ]_vars

\* C27 witness: every warm-up fetch failed (no refresh ever completed, none is
\* pending), and an event was then handed to the two registered listeners
TransientErrorsWitness ==
  /\ last.op = "emit"
  /\ last.delivered
  /\ Len(tradeHandlers) = 2
  /\ last.recipients = tradeHandlers
  /\ fetches = <<>>
  /\ cacheTimestamp = 0
  /\ activeSubscription # 0

\* C27 witness of the other error: the stream reported an error while a
\* listener was registered, and the upstream is still open
TransientErrorsStream ==
  /\ last.op = "streamError"
  /\ Len(tradeHandlers) > 0
  /\ activeSubscription # 0
  /\ emitted < MaxEvents

\* C28. Refresh-if-stale lookups: isSmartMoney and getSmartMoneyInfo answer
\* at once, with no provider fetch, only when the cache is fresh and non-empty;
\* otherwise they await a refresh and answer from the state it leaves; the
\* address is compared in lower case.
RefreshIfStale ==
  [][ /\ last'.op \in {"isSmartMoney", "getSmartMoneyInfo"} =>
           /\ now - cacheTimestamp < CacheTtl
           /\ Len(smartMoneyCache) > 0
           /\ fetches' = fetches
           /\ last'.answer = (toLowerCase(last'.address) \in smartMoneySet)
      /\ (last'.op = "fetch" /\ last'.caller \in {"isSmartMoney", "getSmartMoneyInfo"}) =>
           /\ ~(now - cacheTimestamp < CacheTtl /\ Len(smartMoneyCache) > 0)
           /\ Len(fetches') = Len(fetches) + 1
      /\ ( /\ last'.op = "fetchReturns"
            /\ last'.caller \in {"isSmartMoney", "getSmartMoneyInfo"} ) =>
           /\ cacheTimestamp' = now
           /\ \A i \in 1..Len(last'.refreshed) :
                last'.refreshed[i].address \in smartMoneySet'
           /\ last'.answer = (toLowerCase(last'.address) \in smartMoneySet')
           /\ last'.answer =
                (\E i \in 1..Len(smartMoneyCache') :
                   smartMoneyCache'[i].address = toLowerCase(last'.address)) ]_vars

\* C28 witness: isSmartMoney('0xA'), called after the cache had expired, got
\* TRUE from the refresh it waited for, which cached the wallet as 0xa
RefreshIfStaleWitness ==
  /\ last.op = "fetchReturns"
  /\ last.caller = "isSmartMoney"
  /\ last.address = "0xA"
  /\ last.answer
  /\ "0xa" \in smartMoneySet
  /\ cacheTimestamp = now
  /\ now >= StartTime + CacheTtl

\* C29. Delivery order: an event that passes the filters is handed to every
\* registered listener in the step that emits it, whatever is in flight; the
\* session's run for it is queued behind the runs of earlier events; no other
\* step hands a trade to the session.
DeliveryOrder ==
  [][ /\ (last'.op = "emit" /\ PassesFilters(last'.event, upstreamOptions)) =>
           /\ last'.recipients = tradeHandlers
           /\ last'.trade = SmartMoneyTrade(last'.event)
           /\ CopyFn \in Range(tradeHandlers) =>
                /\ stats'.tradesDetected = stats.tradesDetected + 1
                /\ last'.outcome # "none"
                /\ \/ tasks' = tasks
                   \/ /\ Len(tasks') = Len(tasks) + 1
                      /\ SubSeq(tasks', 1, Len(tasks)) = tasks
                      /\ tasks'[Len(tasks')].trade = last'.trade
      /\ last'.op # "emit" =>
           /\ stats'.tradesDetected = stats.tradesDetected
           /\ Len(tasks') <= Len(tasks) ]_vars

\* C29 witness: the second event was handed to the session while the order of
\* the first was pending at the backend, and its run waits behind it
DeliveryOrderWitness ==
  /\ last.op = "emit"
  /\ stats.tradesDetected = 2
  /\ Len(tasks) = 2
  /\ tasks[1].pc = "order"
  /\ tasks[1].trade # last.trade
  /\ tasks[2].pc = "delay"
  /\ tasks[2].trade = last.trade

\* C30. Cache consistency: smartMoneySet is the key set of smartMoneyCache,
\* every key is lower-case and is the address of its wallet, every wallet has
\* pnl >= minPnl, and a trade handed on is flagged isSmartMoney exactly when
\* a smartMoneyInfo is attached.
CacheConsistency ==
  /\ smartMoneySet = { smartMoneyCache[i].address : i \in 1..Len(smartMoneyCache) }
  /\ Cardinality(smartMoneySet) = Len(smartMoneyCache)
  /\ \A a \in smartMoneySet : toLowerCase(a) = a /\ a \notin {"0xA", "0xB", "0xC"}
  /\ \A i \in 1..Len(smartMoneyCache) : smartMoneyCache[i].pnl >= DefaultMinPnl
  /\ (last.op = "emit" /\ last.delivered) =>
       /\ last.trade.isSmartMoney <=> last.trade.smartMoneyInfo # <<>>
       /\ last.trade.isSmartMoney <=> last.trade.traderAddress \in smartMoneySet

\* C30 witness: one of two overlapping refreshes has completed, the other is
\* still awaited, and the cache holds the wallets of the first
CacheConsistencyWitness ==
  /\ last.op = "fetchReturns"
  /\ Len(fetches) >= 1
  /\ Len(smartMoneyCache) = 2
  /\ smartMoneySet = {"0xa", "0xb"}

\* C30 witness at the stream: after both refreshes a trade of a cached wallet
\* was handed on, flagged and with its wallet attached
CacheConsistencyStream ==
  /\ last.op = "emit"
  /\ last.delivered
  /\ last.trade.isSmartMoney
  /\ last.trade.smartMoneyInfo # <<>>
  /\ fetches = <<>>

\* C31. Top-N bound: a session started with topN = N and no explicit address
\* follows at most N addresses, whatever the cache held when it was started.
TopNBound ==
  ( /\ session.pc = "active"
    /\ session.options.topN > 0
    /\ Len(session.options.targetAddresses) = 0 )
  => Len(session.targetAddresses) <= session.options.topN

\* C32. Membership re-check after suspension: a run of a topN-derived session
\* that wakes up from its delay dispatches an order only for a trader who is a
\* cohort member at that moment.
MembershipRecheck ==
  [][ ( /\ session.options.topN > 0
        /\ Len(session.options.targetAddresses) = 0
        /\ last'.op = "timer"
        /\ last'.order # NoOrder )
      => last'.trade.traderAddress \in smartMoneySet' ]_vars

\* C33. Every delivered target trade is eventually classified: a trade of a
\* target handed to the session is counted at once or its run is suspended;
\* a run that wakes up is counted or waits for the backend; an answer or a
\* raise of the backend is counted; and when timers fire and backend calls
\* end, no run stays suspended.
EventuallyClassified ==
  /\ [][ /\ ( /\ last'.op = "emit"
              /\ CopyFn \in Range(last'.recipients)
              /\ last'.trade.traderAddress \in Range(session.targetAddresses) )
            => \/ Classified' > Classified /\ tasks' = tasks
               \/ /\ Len(tasks') = Len(tasks) + 1
                  /\ SubSeq(tasks', 1, Len(tasks)) = tasks
                  /\ tasks'[Len(tasks')].trade = last'.trade
         /\ last'.op = "timer"
            => \/ Classified' > Classified /\ Len(tasks') = Len(tasks) - 1
               \/ /\ Len(tasks') = Len(tasks)
                  /\ tasks'[Len(tasks')].pc = "order"
                  /\ tasks'[Len(tasks')].trade = last'.trade
         /\ last'.op \in {"orderReturns", "orderRaises"}
            => Classified' > Classified /\ Len(tasks') = Len(tasks) - 1 ]_vars
  /\ (tasks # <<>>) ~> (tasks = <<>>)

\* C33 witness: of two trades in flight the backend's answer for one has been
\* counted while the run of the other is still suspended
EventuallyClassifiedWitness ==
  /\ last.op \in {"orderReturns", "orderRaises"}
  /\ stats.tradesDetected = 2
  /\ Classified >= 1
  /\ Len(tasks) = 1
  /\ tasks[1].trade # last.trade

\* C34. Only targets are copied: every order the session dispatches, and every
\* run it suspends, is for a trade of one of its targetAddresses; an event of
\* another trader changes nothing of the session but tradesDetected, by one
\* when the event is handed to the session.
OnlyTargets ==
  [][ /\ last'.order # NoOrder =>
           last'.trade.traderAddress \in Range(session.targetAddresses)
      /\ \A i \in 1..Len(tasks') :
           tasks'[i].trade.traderAddress \in Range(session'.targetAddresses)
      /\ ( /\ last'.op = "emit"
            /\ session.pc = "active"
            /\ toLowerCase(last'.event.address) \notin Range(session.targetAddresses) )
          => /\ stats' = [stats EXCEPT !.tradesDetected =
                            IF CopyFn \in Range(last'.recipients) THEN @ + 1 ELSE @]
             /\ tasks' = tasks
             /\ backendCalls' = backendCalls
             /\ last'.order = NoOrder
             /\ last'.onTrade = 0
             /\ last'.onError = 0 ]_vars

\* C34 witness: the first listener's options admit every address; after an
\* order for a target, a trade of another trader was handed to the session and
\* only counted as detected
OnlyTargetsWitness ==
  /\ last.op = "emit"
  /\ tradeHandlers = << "g", CopyFn >>
  /\ CopyFn \in Range(last.recipients)
  /\ last.trade.traderAddress \notin Range(session.targetAddresses)
  /\ last.outcome = "notTarget"
  /\ stats.tradesDetected = 2
  /\ backendCalls = 1
  /\ Len(tasks) = 1

\* C35. Stale handles are harmless: once the upstream subscription the first
\* handle was registered on has been torn down (by disconnect() or because
\* the last listener left), unsubscribe() on that handle changes neither the
\* listener set nor the upstream subscription.
StaleHandlesHarmless ==
  [][ ( /\ last'.op = "unsubscribe"
        /\ session.pc = "new"
        /\ Len(upstreamUnsubs) >= 1
        /\ upstreamUnsubs[1] = 1 )
      => /\ tradeHandlers' = tradeHandlers
         /\ activeSubscription' = activeSubscription
         /\ upstreamUnsubs' = upstreamUnsubs ]_vars

\* C36. Handles are independent: while the first two handles are both
\* registered on the upstream opened first, unsubscribe() on the first leaves
\* the callback of the second registered and the upstream open.
HandlesIndependent ==
  [][ ( /\ last'.op = "unsubscribe"
        /\ session.pc = "new"
        /\ Len(handles) = 2
        /\ upstreamUnsubs = << 0 >>
        /\ handles[2] \in Range(tradeHandlers) )
      => /\ handles[2] \in Range(tradeHandlers')
         /\ activeSubscription' = activeSubscription
         /\ upstreamUnsubs' = upstreamUnsubs ]_vars

\* C37. Lifecycle flag: the handle of a started session reports isActive =
\* TRUE until stop() is called and isActive = FALSE in every state after that.
LifecycleFlag ==
  session.pc = "active" => (AutoCopyTradingSubscription.isActive <=> stopCalls = 0)

\* C38. Momentum bot V2 holds one position at a time: at most one entry order
\* is submitted (and not rejected) while no position has been closed in
\* between, and an entry order is submitted only while currentPosition is
\* null, outside the trade cooldown and above the daily loss limit.
OnePositionAtATime ==
  [][ /\ entryOrders' <= 1
      /\ last'.op = "entryOrder" =>
           /\ state.currentPosition = NoPosition
           /\ ~(now - state.lastTradeTime < TradeCooldown)
           /\ ~(state.dailyPnL <= 0 - MaxDailyLoss) ]_vars

====
